---- MODULE Spec2Model ----
(***************************************************************************)
(* smenu: a kiosk launcher.  The model covers src/main.rs: the registry    *)
(* construction (MenuLayout::mk_sgui_layout), the console switch           *)
(* (switch_tty), the output relay (push2dogd), the supervisor (run_entry)  *)
(* and the event loop of main.                                             *)
(*                                                                         *)
(* Strings that the code takes apart (file names) are sequences of         *)
(* one-character strings; the other strings are opaque.                    *)
(***************************************************************************)
EXTENDS Integers, Sequences, FiniteSets, TLC

VARIABLES
  config,     \* the MenuLayout that load_config/load_default_config returned
  entries,    \* main's `entries`: HashMap<u128, MenuEntry>
  layout,     \* main's `layout`: the tabs handed to the toolkit
  mainpc,     \* position of the main thread
  ev,         \* the event gui.get_ev() returned last
  ignore_hid, \* the toolkit's "ignore input" toggle
  privileged, \* geteuid() == 0
  procEnv,    \* the environment of the launcher process
  tty,        \* the active virtual console
  devOps,     \* what switch_tty did to the console devices in this run
  arbitration,\* what the switch_tty calls of this run returned, in order
  workerpc,   \* position of the worker thread that runs run_entry
  cur,        \* the id of the entry the worker runs
  envs,       \* run_entry's local `envs`
  stdio,      \* run_entry's locals `stdin`, `stdout`, `stderr`
  child,      \* the child process of this run
  result,     \* what run_entry returned
  prevResult, \* what the run before this one returned
  started,    \* the streams this run started a relay thread for
  relay,      \* the relay threads (push2dogd) of the last Graphical child
  pipe,       \* the pipes they read: lines buffered, write end open
  log         \* the launcher's own lines posted to the sink in this run

registry == <<config, entries, layout>>
launcher == <<ev, ignore_hid, privileged, procEnv, tty, devOps, arbitration,
              workerpc, cur, envs, stdio, child, result, prevResult, started,
              relay, pipe, log>>
vars == <<registry, mainpc, launcher>>

(***************************************************************************)
(* Bounds of the model.                                                    *)
(***************************************************************************)
MaxItems == 2
MaxSystems == 2
MaxLines == 1

Last(s) == s[Len(s)]

(***************************************************************************)
(* str::split('.'): the segments between the dots; a string without a dot  *)
(* (the empty one included) is one segment.                                *)
(***************************************************************************)
RECURSIVE split(_)
split(s) ==
  IF s = <<>> THEN << <<>> >>
  ELSE IF Head(s) = "." THEN << <<>> >> \o split(Tail(s))
  ELSE LET r == split(Tail(s)) IN << <<Head(s)>> \o Head(r) >> \o Tail(r)

\* line 110: filename.split('.').last().unwrap_or("<invalid>")
ext(filename) == Last(split(filename))

\* line 115: filename.split('.').next().unwrap()
fancy_name(filename) == Head(split(filename))

next_id_stuck(id) == id

\* lines 89 and 128: id += 1
next_id(id) == id + 1

\* line 111: the guard of the `continue`
ext_allowed(system, filename) == ext(filename) \in system.file_extensions

\* line 101: self.emulators.iter().find(|e| e.systems.contains(&system.name))
matching(emulators, name) ==
  {k \in 1..Len(emulators) : name \in emulators[k].systems}

find_emulator_last(emulators, name) ==
  LET m == matching(emulators, name)
  IN  CHOOSE k \in m : \A j \in m : k >= j

find_emulator(emulators, name) ==
  LET m == matching(emulators, name)
  IN  CHOOSE k \in m : \A j \in m : k <= j

\* lines 116-126: the entry synthesized for one ROM file
rom_entry(system, emulator, filename) ==
  [name |-> fancy_name(filename),
   category |-> "Tools",
   uses_wayland |-> TRUE,
   executable |-> emulator.executable,
   args |-> Append(emulator.args, <<system.rom_directory.path, filename>>),
   env |-> emulator.env]

(***************************************************************************)
(* lines 107-129: the loop over the directory's entries.  A directory      *)
(* entry is [ok, name]: ok is FALSE for an entry that read_dir yields as   *)
(* Err or whose name is not valid UTF-8.  The result is the system's tab   *)
(* (pairs <<entry, id>>) and the next free id.                             *)
(***************************************************************************)
RECURSIVE scan_files(_, _, _, _)
scan_files(files, system, emulator, id) ==
  IF files = <<>> THEN [tab |-> <<>>, id |-> id]
  ELSE LET file == Head(files) IN
       IF ~file.ok \/ ~ext_allowed(system, file.name)
       THEN scan_files(Tail(files), system, emulator, id)
       ELSE LET rest == scan_files(Tail(files), system, emulator, next_id(id))
            IN  [tab |-> << <<rom_entry(system, emulator, file.name), id>> >> \o rest.tab,
                 id |-> rest.id]

\* the push of line 130 moved past the else branch of line 131
system_tab_always_pushed(system, emulators, id) ==
  IF ~system.rom_directory.exists THEN [roms |-> << <<system.name, <<>> >> >>, id |-> id]
  ELSE IF ~system.rom_directory.readable THEN [roms |-> <<>>, id |-> id]
  ELSE IF matching(emulators, system.name) = {} THEN [roms |-> <<>>, id |-> id]
  ELSE LET t == scan_files(system.rom_directory.files, system,
                           emulators[find_emulator(emulators, system.name)], id)
       IN  [roms |-> << <<system.name, t.tab>> >>, id |-> t.id]

(***************************************************************************)
(* lines 93-133: one system.  The result is what it appends to `roms`      *)
(* (a pair <<system name, tab>>, or nothing) and the next free id.         *)
(***************************************************************************)
system_tab(system, emulators, id) ==
  IF ~system.rom_directory.exists THEN [roms |-> <<>>, id |-> id]
  ELSE IF ~system.rom_directory.readable THEN [roms |-> <<>>, id |-> id]
  ELSE IF matching(emulators, system.name) = {} THEN [roms |-> <<>>, id |-> id]
  ELSE LET t == scan_files(system.rom_directory.files, system,
                           emulators[find_emulator(emulators, system.name)], id)
       IN  [roms |-> << <<system.name, t.tab>> >>, id |-> t.id]

\* lines 92-134: the loop over the systems
RECURSIVE scan_systems(_, _, _)
scan_systems(systems, emulators, id) ==
  IF systems = <<>> THEN [roms |-> <<>>, id |-> id]
  ELSE LET t == system_tab(Head(systems), emulators, id)
           rest == scan_systems(Tail(systems), emulators, t.id)
       IN  [roms |-> t.roms \o rest.roms, id |-> rest.id]

(***************************************************************************)
(* lines 84-90: the loop over the static items.  The result is `tools` and *)
(* `programs` (pairs <<item, id>>) and the next free id.                   *)
(***************************************************************************)
RECURSIVE scan_items(_, _)
scan_items(items, id) ==
  IF items = <<>> THEN [tools |-> <<>>, programs |-> <<>>, id |-> id]
  ELSE LET item == Head(items)
           rest == scan_items(Tail(items), next_id(id))
       IN  [tools |-> (IF item.category = "Tools" THEN << <<item, id>> >> ELSE <<>>)
                      \o rest.tools,
            programs |-> (IF item.category = "Programs" THEN << <<item, id>> >> ELSE <<>>)
                         \o rest.programs,
            id |-> rest.id]

\* lines 138-141, 145-148, 153-156: one tab's buttons
RECURSIVE buttons(_)
buttons(tab) ==
  IF tab = <<>> THEN <<>>
  ELSE << <<Head(tab)[1].name, Head(tab)[2]>> >> \o buttons(Tail(tab))

RECURSIVE rom_tabs(_)
rom_tabs(roms) ==
  IF roms = <<>> THEN <<>>
  ELSE << [name |-> Head(roms)[1], buttons |-> buttons(Head(roms)[2])] >>
       \o rom_tabs(Tail(roms))

RECURSIVE concat(_)
concat(ss) == IF ss = <<>> THEN <<>> ELSE Head(ss) \o concat(Tail(ss))

RECURSIVE tabs_of(_)
tabs_of(roms) == IF roms = <<>> THEN <<>> ELSE <<Head(roms)[2]>> \o tabs_of(Tail(roms))

\* lines 140, 147, 155: entry_map.insert(id, entry) for every pair; a later
\* insert of the same id replaces the earlier one
RECURSIVE insert_all(_, _)
insert_all(map, pairs) ==
  IF pairs = <<>> THEN map
  ELSE LET e == Head(pairs)[1]
           id == Head(pairs)[2]
           m == [i \in DOMAIN map \cup {id} |-> IF i = id THEN e ELSE map[i]]
       IN  insert_all(m, Tail(pairs))

\* lines 77-161
mk_sgui_layout(cfg) ==
  LET static == scan_items(cfg.items, 0)
      scanned == scan_systems(cfg.systems, cfg.emulators, static.id)
      roms == scanned.roms
  IN  [entry_map |-> insert_all([i \in {} |-> i],
                                static.tools \o static.programs \o concat(tabs_of(roms))),
       layout |-> << [name |-> "System Tools", buttons |-> buttons(static.tools)],
                     [name |-> "Programs", buttons |-> buttons(static.programs)] >>
                  \o rom_tabs(roms)]

(***************************************************************************)
(* The inputs of the registry construction: the configuration and, in each *)
(* system's rom_directory, what the filesystem holds at that path.         *)
(***************************************************************************)
ToolItem ==
  [name |-> <<"t">>, category |-> "Tools", uses_wayland |-> TRUE,
   executable |-> <<"usr", "bin", "tool">>, args |-> <<>>, env |-> <<>>]

ProgramItem ==
  [name |-> <<"p">>, category |-> "Programs", uses_wayland |-> FALSE,
   executable |-> <<"usr", "bin", "prog">>, args |-> <<>>, env |-> <<>>]

RECURSIVE SeqsUpTo(_, _)
SeqsUpTo(S, n) ==
  IF n = 0 THEN {<<>>}
  ELSE LET shorter == SeqsUpTo(S, n - 1)
       IN  shorter \cup {Append(q, x) : q \in shorter, x \in S}

Emulators ==
  << [executable |-> <<"usr", "bin", "emu1">>, args |-> <<"-f">>, env |-> <<>>,
      systems |-> {"nes"}],
     [executable |-> <<"usr", "bin", "emu2">>, args |-> <<>>, env |-> <<>>,
      systems |-> {"nes", "gba"}] >>

File(name) == [ok |-> TRUE, name |-> name]
BadFile == [ok |-> FALSE, name |-> <<>>]

Listings ==
  { <<>>,
    << File(<<"a">>) >>,
    << File(<<"r", ".", "b">>), File(<<"r", ".", "a">>) >>,
    << BadFile, File(<<"r", ".", "a">>) >>,
    << File(<<"r", ".", "a">>), File(<<"s", ".", "b", ".", "a">>) >> }

Missing == [exists |-> FALSE, readable |-> FALSE, files |-> <<>>]
Unreadable == [exists |-> TRUE, readable |-> FALSE, files |-> <<>>]
Holding(files) == [exists |-> TRUE, readable |-> TRUE, files |-> files]

TwoRoms == << File(<<"r", ".", "b">>), File(<<"r", ".", "a">>) >>

\* "nes" is run by both emulators, "gba" by the second, "snes" by none
SystemDefs ==
  {[name |-> "nes", file_extensions |-> {<<"a">>}, dir |-> d] :
     d \in {Missing, Unreadable} \cup {Holding(l) : l \in Listings}}
  \cup {[name |-> "gba", file_extensions |-> {<<"a">>, <<"b">>}, dir |-> d] :
          d \in {Missing, Holding(TwoRoms), Holding(<< File(<<"a">>) >>)}}
  \cup {[name |-> "snes", file_extensions |-> {<<"a">>}, dir |-> d] :
          d \in {Holding(TwoRoms), Holding(<<>>)}}

\* the system declared at position k, with its own directory
RECURSIVE Place(_, _)
Place(defs, k) ==
  IF defs = <<>> THEN <<>>
  ELSE << [name |-> Head(defs).name,
           file_extensions |-> Head(defs).file_extensions,
           rom_directory |-> [path |-> k, exists |-> Head(defs).dir.exists,
                              readable |-> Head(defs).dir.readable,
                              files |-> Head(defs).dir.files]] >>
       \o Place(Tail(defs), k + 1)

Configs ==
  {[items |-> i, emulators |-> Emulators, systems |-> Place(s, 1)] :
     i \in SeqsUpTo({ToolItem, ProgramItem}, MaxItems),
     s \in SeqsUpTo(SystemDefs, MaxSystems)}

(***************************************************************************)
(* The launcher's surroundings.                                            *)
(***************************************************************************)
Unset == "<unset>"
EnvKeys == {"XDG_RUNTIME_DIR", "TERM"}

ProcEnvs ==
  {[k \in EnvKeys |-> Unset],
   [k \in EnvKeys |-> IF k = "TERM" THEN "xterm" ELSE "/run/user/0"]}

Streams == {"stdout", "stderr"}

NoEvent == [kind |-> "None", id |-> 0]
Quit == [kind |-> "Quit", id |-> 0]
Other == [kind |-> "Other", id |-> 0]
ButtonPress(id) == [kind |-> "StatelessButtonPress", id |-> id]

\* what gui.get_ev() can return: an id past the registered ones included
Events ==
  {Quit, Other}
  \cup {ButtonPress(id) : id \in DOMAIN entries \cup {Cardinality(DOMAIN entries)}}

\* what the child can end with: ExitStatus::code() or ExitStatus::signal()
ExitStatuses ==
  {[kind |-> "code", n |-> 0], [kind |-> "code", n |-> 7],
   [kind |-> "signal", n |-> 9], [kind |-> "signal", n |-> 34]}

NoStatus == [kind |-> "none", n |-> 0]
NoChild == [state |-> "none", stdin |-> "none", stdout |-> "none", stderr |-> "none",
            env |-> [k \in EnvKeys |-> Unset], program |-> <<>>, status |-> NoStatus]
NoStdio == [stdin |-> "none", stdout |-> "none", stderr |-> "none"]
ClosedPipe == [lines |-> 0, open |-> FALSE]

Line(prio, msg, arg) == [prio |-> prio, msg |-> msg, arg |-> arg]

GraphicalItems ==
  {[name |-> <<"t">>, category |-> "Tools", uses_wayland |-> TRUE,
    executable |-> <<"usr", "bin", "tool">>, args |-> <<>>, env |-> e] :
     e \in {<<>>, << <<"XDG_RUNTIME_DIR", "/custom">> >>}}

LauncherConfigs ==
  {[items |-> <<g, ProgramItem>>, emulators |-> <<>>, systems |-> <<>>] :
     g \in GraphicalItems}

(***************************************************************************)
(* switch_tty, lines 166-181: the outcomes of one call.  Each is whether   *)
(* it returned Ok, the console that is active afterwards, the device       *)
(* operations done and the lines logged.                                   *)
(***************************************************************************)
\* lines 172-180, the caller being root.  A vt_waitactive that fails leaves
\* the switch that vt_activate asked for done or not done.
switch_tty_root(num, clear) ==
  LET out(ok, t, ops) == [ok |-> ok, tty |-> t, ops |-> ops, log |-> <<>>]
      ctl == {"open", "vt_activate", "vt_waitactive"}
  IN  {out(FALSE, tty, {"open"}), out(FALSE, tty, {"open", "vt_activate"})}
      \cup {out(FALSE, t, ctl) : t \in {tty, num}}
      \cup (IF clear
            THEN {out(FALSE, num, ctl \cup {"open_target"}),
                  out(FALSE, num, ctl \cup {"open_target", "write"}),
                  out(TRUE, num, ctl \cup {"open_target", "write"})}
            ELSE {out(TRUE, num, ctl)})

switch_tty_unchecked(num, clear) == switch_tty_root(num, clear)

switch_tty(num, clear) ==
  IF ~privileged
  THEN {[ok |-> TRUE, tty |-> tty, ops |-> {},
         log |-> << Line("info", "Running as a non-root user", <<>>) >>]}
  ELSE switch_tty_root(num, clear)

\* Command::envs over the inherited environment: a later pair of the same key wins
RECURSIVE overlay(_, _)
overlay(env, pairs) ==
  IF pairs = <<>> THEN env
  ELSE overlay([env EXCEPT ![Head(pairs)[1]] = Head(pairs)[2]], Tail(pairs))

\* line 222: .envs(e.env.clone())
spawn_envs(e, local_envs) == e.env

\* line 229: the last component of the executable's path
program_name(e) == Last(e.executable)

\* line 253: Signal::try_from(sig), which knows the signals 1 to 31
signal_try_from(sig) == IF sig \in 1..31 THEN <<"Ok", sig>> ELSE <<"Err", "EINVAL">>

\* lines 246-254: the lines logged for the status wait() returned
classify(name, status) ==
  (IF status.kind = "code" /\ status.n # 0
   THEN << Line("critical", "returned with erroneous code", <<name, status.n>>) >>
   ELSE <<>>)
  \o (IF status.kind = "signal"
      THEN << Line("critical", "returned due to", <<name, signal_try_from(status.n)>>) >>
      ELSE <<>>)

(***************************************************************************)
(* Startup: main builds the registry from the loaded configuration         *)
(* (line 293) and enters the loop.                                         *)
(***************************************************************************)
Idle ==
  /\ ev = NoEvent
  /\ ignore_hid = FALSE
  /\ tty = 1
  /\ devOps = {}
  /\ arbitration = <<>>
  /\ workerpc = "idle"
  /\ cur = 0
  /\ envs = <<>>
  /\ stdio = NoStdio
  /\ child = NoChild
  /\ result = "none"
  /\ prevResult = "none"
  /\ started = {}
  /\ relay = [s \in Streams |-> "none"]
  /\ pipe = [s \in Streams |-> ClosedPipe]
  /\ log = <<>>

InitRegistry ==
  /\ config \in Configs
  /\ entries = [i \in {} |-> i]
  /\ layout = <<>>
  /\ mainpc = "startup"
  /\ privileged = FALSE
  /\ procEnv = [k \in EnvKeys |-> Unset]
  /\ Idle

Init ==
  /\ config \in LauncherConfigs
  /\ entries = [i \in {} |-> i]
  /\ layout = <<>>
  /\ mainpc = "startup"
  /\ privileged \in BOOLEAN
  /\ procEnv \in ProcEnvs
  /\ Idle

Startup ==
  /\ mainpc = "startup"
  /\ LET built == mk_sgui_layout(config)
     IN  /\ entries' = built.entry_map
         /\ layout' = built.layout
  /\ mainpc' = "get_ev"
  /\ UNCHANGED <<config, launcher>>

(***************************************************************************)
(* main's loop, lines 296-319.  The main thread is at "get_ev" when it     *)
(* blocks in gui.get_ev() of line 297, at "match" when it holds the event  *)
(* in `ev`, at "discard_check" when it tests h.is_finished() of line 310   *)
(* and at "discard_wait" when it blocks in gui.get_ev() of line 311.       *)
(***************************************************************************)
\* line 297
GetEv(e) ==
  /\ mainpc = "get_ev"
  /\ ev' = e
  /\ mainpc' = "match"
  /\ UNCHANGED <<registry, ignore_hid, privileged, procEnv, tty, devOps,
                 arbitration, workerpc, cur, envs, stdio, child, result,
                 prevResult, started, relay, pipe, log>>

\* lines 299-302
MatchQuit ==
  /\ mainpc = "match"
  /\ ev = Quit
  /\ mainpc' = "exited"
  /\ ev' = NoEvent
  /\ UNCHANGED <<registry, ignore_hid, privileged, procEnv, tty, devOps,
                 arbitration, workerpc, cur, envs, stdio, child, result,
                 prevResult, started, relay, pipe, log>>

\* line 304: entries.get(&id)
registered(id) == id \in DOMAIN entries

\* the same without line 305
MatchButton_input_kept ==
  /\ mainpc = "match"
  /\ ev.kind = "StatelessButtonPress"
  /\ IF registered(ev.id)
     THEN /\ workerpc' = "switch_in"
          /\ cur' = ev.id
          /\ mainpc' = "discard_check"
     ELSE /\ mainpc' = "get_ev"
          /\ UNCHANGED <<workerpc, cur>>
  /\ ev' = NoEvent
  /\ UNCHANGED <<registry, ignore_hid, privileged, procEnv, tty, devOps,
                 arbitration, envs, stdio, child, result, prevResult, started,
                 relay, pipe, log>>

\* lines 303-309: a button of a registered entry sets "ignore input" and
\* starts the worker; any other id changes nothing
MatchButton ==
  /\ mainpc = "match"
  /\ ev.kind = "StatelessButtonPress"
  /\ IF registered(ev.id)
     THEN /\ ignore_hid' = TRUE
          /\ workerpc' = "switch_in"
          /\ cur' = ev.id
          /\ mainpc' = "discard_check"
     ELSE /\ mainpc' = "get_ev"
          /\ UNCHANGED <<ignore_hid, workerpc, cur>>
  /\ ev' = NoEvent
  /\ UNCHANGED <<registry, privileged, procEnv, tty, devOps, arbitration,
                 envs, stdio, child, result, prevResult, started, relay, pipe,
                 log>>

\* line 317
MatchOther ==
  /\ mainpc = "match"
  /\ ev = Other
  /\ mainpc' = "get_ev"
  /\ ev' = NoEvent
  /\ UNCHANGED <<registry, ignore_hid, privileged, procEnv, tty, devOps,
                 arbitration, workerpc, cur, envs, stdio, child, result,
                 prevResult, started, relay, pipe, log>>

is_finished_early == workerpc # "switch_in"

\* line 310: h.is_finished(), true once the worker's closure has returned
is_finished == workerpc = "finished"

\* line 310, the worker still running: block in get_ev
DiscardCheckRunning ==
  /\ mainpc = "discard_check"
  /\ ~is_finished
  /\ mainpc' = "discard_wait"
  /\ UNCHANGED <<registry, launcher>>

after_run_unwrapped(res) == IF res = "Ok" THEN "get_ev" ELSE "exited"

\* lines 306-316: where the main thread goes once the scope has ended; the
\* worker has logged the error of the run, nothing is propagated
after_run(res) == "get_ev"

\* lines 310-314, the worker finished: the scope ends, input is restored and
\* the run's locals are dropped
DiscardCheckFinished ==
  /\ mainpc = "discard_check"
  /\ is_finished
  /\ ignore_hid' = FALSE
  /\ mainpc' = after_run(result)
  /\ workerpc' = "idle"
  /\ prevResult' = result
  /\ result' = "none"
  /\ cur' = 0
  /\ envs' = <<>>
  /\ stdio' = NoStdio
  /\ child' = NoChild
  /\ devOps' = {}
  /\ arbitration' = <<>>
  /\ started' = {}
  /\ log' = <<>>
  /\ UNCHANGED <<registry, ev, privileged, procEnv, tty, relay, pipe>>

\* line 311: `let _ = gui.get_ev()` drops whatever event arrives
DiscardPull(e) ==
  /\ mainpc = "discard_wait"
  /\ e \in Events
  /\ mainpc' = "discard_check"
  /\ UNCHANGED <<registry, launcher>>

(***************************************************************************)
(* run_entry, lines 196-258, on the worker thread.                         *)
(***************************************************************************)
Entry == entries[cur]

after_switch_in_ignored(ok) == "wire"

\* lines 203 and 213: the `?` on what switch_tty returned
after_switch_in(ok) == IF ok THEN "wire" ELSE "failed"

\* lines 197-203 and 213: the arbitrate-in switch
RunSwitchIn ==
  /\ workerpc = "switch_in"
  /\ \E o \in switch_tty(IF Entry.uses_wayland THEN 2 ELSE 3, ~Entry.uses_wayland) :
       /\ tty' = o.tty
       /\ devOps' = devOps \cup o.ops
       /\ arbitration' = Append(arbitration, IF o.ok THEN "Ok" ELSE "Err")
       /\ log' = log \o << Line("debug", "Running", <<Entry.name>>) >> \o o.log
       /\ workerpc' = after_switch_in(o.ok)
       /\ result' = IF o.ok THEN result
                    ELSE IF Entry.uses_wayland THEN "Failed switch to tty2"
                    ELSE "Failed to switch to tty3"
  /\ envs' = Entry.env
  /\ UNCHANGED <<registry, mainpc, ev, ignore_hid, privileged, procEnv, cur,
                 stdio, child, prevResult, started, relay, pipe>>

\* lines 204-211: the stdio and environment of a Graphical entry
RunWireGraphical ==
  /\ workerpc = "wire"
  /\ Entry.uses_wayland
  /\ stdio' = [stdin |-> "null", stdout |-> "piped", stderr |-> "piped"]
  /\ IF procEnv["XDG_RUNTIME_DIR"] = Unset
     THEN /\ envs' = Append(envs, <<"XDG_RUNTIME_DIR", "/xdg">>)
          /\ UNCHANGED log
     ELSE /\ log' = Append(log, Line("info", "Detected XDG_RUNTIME_DIR", <<>>))
          /\ UNCHANGED envs
  /\ workerpc' = "spawn"
  /\ UNCHANGED <<registry, mainpc, ev, ignore_hid, privileged, procEnv, tty,
                 devOps, arbitration, cur, child, result, prevResult, started,
                 relay, pipe>>

\* lines 214-217: the stdio and environment of a Console entry; each of the
\* three opens of /dev/tty3 can fail
RunWireConsole ==
  /\ workerpc = "wire"
  /\ ~Entry.uses_wayland
  /\ \E opened \in {"all", "no stdin", "no stdout", "no stderr"} :
       IF opened = "all"
       THEN /\ stdio' = [stdin |-> "tty3", stdout |-> "tty3", stderr |-> "tty3"]
            /\ envs' = Append(envs, <<"TERM", "linux">>)
            /\ workerpc' = "spawn"
            /\ UNCHANGED result
       ELSE /\ result' = IF opened = "no stdin" THEN "Failed to open tty3 for reading"
                                                ELSE "Failed to open tty3 for writing"
            /\ workerpc' = "failed"
            /\ UNCHANGED <<stdio, envs>>
  /\ UNCHANGED <<registry, mainpc, ev, ignore_hid, privileged, procEnv, tty,
                 devOps, arbitration, cur, child, prevResult, started, relay,
                 pipe, log>>

\* lines 220-229: the spawn.  A Graphical child gets two fresh pipes.
RunSpawn ==
  /\ workerpc = "spawn"
  /\ \E ok \in BOOLEAN :
       IF ok
       THEN /\ child' = [state |-> "running", stdin |-> stdio.stdin,
                         stdout |-> stdio.stdout, stderr |-> stdio.stderr,
                         env |-> overlay(procEnv, spawn_envs(Entry, envs)),
                         program |-> Entry.executable, status |-> NoStatus]
            /\ pipe' = [s \in Streams |->
                          IF stdio[s] = "piped" THEN [lines |-> 0, open |-> TRUE]
                          ELSE pipe[s]]
            /\ workerpc' = "capture_stdout"
            /\ UNCHANGED result
       ELSE /\ result' = "Failed to spawn the program"
            /\ workerpc' = "failed"
            /\ UNCHANGED <<child, pipe>>
  /\ UNCHANGED <<registry, mainpc, ev, ignore_hid, privileged, procEnv, tty,
                 devOps, arbitration, cur, envs, stdio, prevResult, started,
                 relay, log>>

take_any(s) == child[s] # "none"

\* child.stdout.take() and child.stderr.take(): Some for a piped stream
take(s) == child[s] = "piped"

\* lines 231-236 and 238-243: start the relay of a stream whose handle is
\* there, log the lack of it otherwise
Capture(s, next) ==
  /\ IF take(s)
     THEN /\ relay' = [relay EXCEPT ![s] = "running"]
          /\ started' = started \cup {s}
          /\ UNCHANGED log
     ELSE /\ log' = Append(log, Line("error", "Failed to get handle", <<s>>))
          /\ UNCHANGED <<started, relay>>
  /\ workerpc' = next
  /\ UNCHANGED <<registry, mainpc, ev, ignore_hid, privileged, procEnv, tty,
                 devOps, arbitration, cur, envs, stdio, child, result,
                 prevResult, pipe>>

RunCaptureStdout == workerpc = "capture_stdout" /\ Capture("stdout", "capture_stderr")

RunCaptureStderr == workerpc = "capture_stderr" /\ Capture("stderr", "wait")

\* lines 245-254: wait() returns once the child has ended, with its status
\* or with an error
RunWait ==
  /\ workerpc = "wait"
  /\ child.state = "exited"
  /\ \E ok \in BOOLEAN :
       IF ok
       THEN /\ log' = log \o classify(program_name(Entry), child.status)
            /\ workerpc' = "switch_out"
            /\ UNCHANGED result
       ELSE /\ result' = "Failed to wait for program to exit"
            /\ workerpc' = "failed"
            /\ UNCHANGED log
  /\ child' = [child EXCEPT !.state = "reaped"]
  /\ UNCHANGED <<registry, mainpc, ev, ignore_hid, privileged, procEnv, tty,
                 devOps, arbitration, cur, envs, stdio, prevResult, started,
                 relay, pipe>>

switch_out_result_dropped(ok) == "Ok"

\* lines 256-257: what run_entry returns after the arbitrate-out switch
switch_out_result(ok) == IF ok THEN "Ok" ELSE "Failed to switch back to tty1"

\* lines 256-257: the arbitrate-out switch
RunSwitchOut ==
  /\ workerpc = "switch_out"
  /\ \E o \in switch_tty(1, FALSE) :
       /\ tty' = o.tty
       /\ devOps' = devOps \cup o.ops
       /\ arbitration' = Append(arbitration, IF o.ok THEN "Ok" ELSE "Err")
       /\ log' = log \o o.log
       /\ result' = switch_out_result(o.ok)
       /\ workerpc' = IF switch_out_result(o.ok) = "Ok" THEN "finished" ELSE "failed"
  /\ UNCHANGED <<registry, mainpc, ev, ignore_hid, privileged, procEnv, cur,
                 envs, stdio, child, prevResult, started, relay, pipe>>

\* line 308: the priority the worker logs a failed run with
failure_priority == "error"

\* lines 307-309: the worker's closure logs the error run_entry returned
RunLogError ==
  /\ workerpc = "failed"
  /\ log' = Append(log, Line(failure_priority, "Failed to run menu entry", <<result>>))
  /\ workerpc' = "finished"
  /\ UNCHANGED <<registry, mainpc, ev, ignore_hid, privileged, procEnv, tty,
                 devOps, arbitration, cur, envs, stdio, child, result,
                 prevResult, started, relay, pipe>>

(***************************************************************************)
(* The child process.                                                      *)
(***************************************************************************)
\* the child writes a line to one of its piped streams, which holds up to
\* MaxLines unread lines
ChildWrite(s) ==
  /\ child.state = "running"
  /\ child[s] = "piped"
  /\ pipe[s].lines < MaxLines
  /\ pipe' = [pipe EXCEPT ![s].lines = @ + 1]
  /\ UNCHANGED <<registry, mainpc, ev, ignore_hid, privileged, procEnv, tty,
                 devOps, arbitration, workerpc, cur, envs, stdio, child,
                 result, prevResult, started, relay, log>>

\* the child ends, which closes the write ends of its pipes
ChildExit(status) ==
  /\ child.state = "running"
  /\ child' = [child EXCEPT !.state = "exited", !.status = status]
  /\ pipe' = [s \in Streams |->
                IF child[s] = "piped" THEN [pipe[s] EXCEPT !.open = FALSE] ELSE pipe[s]]
  /\ UNCHANGED <<registry, mainpc, ev, ignore_hid, privileged, procEnv, tty,
                 devOps, arbitration, workerpc, cur, envs, stdio, result,
                 prevResult, started, relay, log>>

(***************************************************************************)
(* push2dogd, lines 183-194, on a relay thread.  A relay is "running"      *)
(* until read_line fails ("returned"); once read_line has returned Ok(0)   *)
(* it is at "eof".                                                         *)
(***************************************************************************)
\* lines 187-192: a line is read, posted to the sink and the buffer cleared
RelayLine(s) ==
  /\ relay[s] = "running"
  /\ pipe[s].lines > 0
  /\ pipe' = [pipe EXCEPT ![s].lines = @ - 1]
  /\ UNCHANGED <<registry, mainpc, ev, ignore_hid, privileged, procEnv, tty,
                 devOps, arbitration, workerpc, cur, envs, stdio, child,
                 result, prevResult, started, relay, log>>

\* what the loop does with read_line's Ok(0), the buffer being empty
after_eof == "eof"

\* lines 187-190: at end of stream read_line returns Ok(0) and leaves the
\* buffer empty; the loop continues
RelayEof(s) ==
  /\ relay[s] \in {"running", "eof"}
  /\ pipe[s].lines = 0
  /\ ~pipe[s].open
  /\ relay' = [relay EXCEPT ![s] = after_eof]
  /\ UNCHANGED <<registry, mainpc, ev, ignore_hid, privileged, procEnv, tty,
                 devOps, arbitration, workerpc, cur, envs, stdio, child,
                 result, prevResult, started, pipe, log>>

\* line 187: read_line fails on a line that is not UTF-8; the loop ends
RelayError(s) ==
  /\ relay[s] = "running"
  /\ pipe[s].lines > 0
  /\ pipe' = [pipe EXCEPT ![s].lines = @ - 1]
  /\ relay' = [relay EXCEPT ![s] = "returned"]
  /\ UNCHANGED <<registry, mainpc, ev, ignore_hid, privileged, procEnv, tty,
                 devOps, arbitration, workerpc, cur, envs, stdio, child,
                 result, prevResult, started, log>>

Next ==
  \/ Startup
  \/ \E e \in Events : GetEv(e)
  \/ MatchQuit
  \/ MatchButton
  \/ MatchOther
  \/ DiscardCheckRunning
  \/ DiscardCheckFinished
  \/ \E e \in Events : DiscardPull(e)
  \/ RunSwitchIn
  \/ RunWireGraphical
  \/ RunWireConsole
  \/ RunSpawn
  \/ RunCaptureStdout
  \/ RunCaptureStderr
  \/ RunWait
  \/ RunSwitchOut
  \/ RunLogError
  \/ \E s \in Streams : ChildWrite(s)
  \/ \E st \in ExitStatuses : ChildExit(st)
  \/ \E s \in Streams : RelayLine(s)
  \/ \E s \in Streams : RelayEof(s)
  \/ \E s \in Streams : RelayError(s)

Spec == Init /\ [][Next]_vars

NextRegistry == Startup

SpecRegistry == InitRegistry /\ [][NextRegistry]_vars

(***************************************************************************)
(* Properties of the launcher.                                             *)
(***************************************************************************)
SwitchInErrors == {"Failed switch to tty2", "Failed to switch to tty3"}
WireErrors == {"Failed to open tty3 for reading", "Failed to open tty3 for writing"}
SpawnError == "Failed to spawn the program"
WaitError == "Failed to wait for program to exit"
SwitchOutError == "Failed to switch back to tty1"
RunErrors == SwitchInErrors \cup WireErrors \cup {SpawnError, WaitError, SwitchOutError}

Spawned == child.state # "none"
Graphical == workerpc # "idle" /\ Entry.uses_wayland
Console == workerpc # "idle" /\ ~Entry.uses_wayland

\* the main thread leaves the loop only from the match on a Quit event
ExitOnlyOnQuit == mainpc' = "exited" /\ mainpc # "exited" => mainpc = "match" /\ ev = Quit

\* from the discard loop the main thread goes nowhere but back to get_ev,
\* and it does so once the worker has finished, whatever the run returned
DiscardReturnsToDispatch ==
  /\ mainpc \in {"discard_check", "discard_wait"}
       => mainpc' \in {"discard_check", "discard_wait", "get_ev"}
  /\ mainpc = "discard_check" /\ workerpc = "finished" /\ mainpc' # mainpc
       => mainpc' = "get_ev" /\ workerpc' = "idle" /\ prevResult' = result

\* matching the press of a registered id starts a run of that entry
RegisteredPressStartsRun ==
  mainpc = "match" /\ ev.kind = "StatelessButtonPress" /\ ev.id \in DOMAIN entries
  /\ mainpc' # mainpc
    => workerpc' = "switch_in" /\ cur' = ev.id

\* C1: no outcome of a run ends the loop: the main thread exits only on a
\* Quit event matched at the dispatching position, it comes back to get_ev
\* once the worker has finished with any result, and there the press of a
\* registered id starts a new run.
C1_LoopSurvives ==
  [][ExitOnlyOnQuit /\ DiscardReturnsToDispatch /\ RegisteredPressStartsRun]_vars

\* a run that follows a failed run has started
C1_Witness ==
  /\ prevResult = SpawnError
  /\ workerpc = "switch_in"
  /\ mainpc = "discard_wait"

\* C2: when the arbitrate-in switch fails, run returns that error and no
\* child is spawned in that run.
C2_NoSpawnAfterFailedSwitchIn ==
  arbitration # <<>> /\ arbitration[1] = "Err" =>
    /\ ~Spawned
    /\ started = {}
    /\ workerpc \in {"failed", "finished"}
    /\ result = (IF Entry.uses_wayland THEN "Failed switch to tty2"
                                       ELSE "Failed to switch to tty3")

\* the switch to console 3 failed after the console had changed, and the
\* worker is through
C2_Witness ==
  /\ arbitration = <<"Err">>
  /\ tty = 3
  /\ workerpc = "finished"
  /\ ~Spawned

Declares(e, key) == \E i \in 1..Len(e) : e[i][1] = key
Declared(e, key) ==
  LET last == CHOOSE i \in 1..Len(e) :
                e[i][1] = key /\ \A j \in (i + 1)..Len(e) : e[j][1] # key
  IN  e[last][2]

\* C3: the child of a Graphical entry has XDG_RUNTIME_DIR at the value the
\* entry declares, and at /xdg when the entry declares none.
C3_RuntimeDir ==
  Spawned /\ Graphical =>
    child.env["XDG_RUNTIME_DIR"]
      = (IF Declares(Entry.env, "XDG_RUNTIME_DIR")
         THEN Declared(Entry.env, "XDG_RUNTIME_DIR") ELSE "/xdg")

Criticals == SelectSeq(log, LAMBDA l : l.prio = "critical")
Waited == child.state = "reaped" /\ result # WaitError

\* C4: after a wait that succeeded the log holds no critical line for exit
\* code 0 and exactly one, naming the program and the code or the signal,
\* for a nonzero code or a signal; the run goes on to arbitrate-out and
\* returns Ok when that succeeds.
C4_ExitClassification ==
  Waited =>
    /\ child.status.kind = "code" /\ child.status.n = 0 => Criticals = <<>>
    /\ child.status.kind = "code" /\ child.status.n # 0 =>
         /\ Len(Criticals) = 1
         /\ Criticals[1].arg = <<program_name(Entry), child.status.n>>
    /\ child.status.kind = "signal" =>
         /\ Len(Criticals) = 1
         /\ Criticals[1].arg = <<program_name(Entry), <<"Ok", child.status.n>> >>
    /\ workerpc \in {"switch_out", "failed", "finished"}
    /\ Len(arbitration) = 2 /\ arbitration[2] = "Ok" => result = "Ok"

\* C5: without the privilege no switch touches a device or changes the
\* active console and none fails, so a run fails only where the stdio
\* wiring, the spawn or the wait fails; every other run spawns the child,
\* waits for it and returns Ok.
C5_UnprivilegedNoOp ==
  ~privileged =>
    /\ devOps = {}
    /\ tty = 1
    /\ \A i \in 1..Len(arbitration) : arbitration[i] = "Ok"
    /\ workerpc = "finished" => result \in {"Ok", SpawnError, WaitError} \cup WireErrors
    /\ result = "Ok" => child.state = "reaped" /\ Len(arbitration) = 2
    /\ workerpc \in {"spawn", "capture_stdout", "capture_stderr", "wait", "switch_out"}
         => arbitration # <<>>

\* an unprivileged run of the Console entry, whose switch would clear the
\* console, has returned Ok
C5_Witness ==
  /\ ~privileged
  /\ workerpc = "finished"
  /\ Console
  /\ result = "Ok"
  /\ child.state = "reaped"

AfterCapture == workerpc \in {"wait", "switch_out", "failed", "finished"}

\* C6: the child of a Graphical entry has a null stdin and piped stdout and
\* stderr, and the run starts one relay for each; the child of a Console
\* entry has all three on /dev/tty3 and the run starts no relay.
C6_StdioWiring ==
  /\ Spawned /\ Graphical =>
       /\ child.stdin = "null" /\ child.stdout = "piped" /\ child.stderr = "piped"
       /\ AfterCapture => started = Streams
       /\ \A s \in started : relay[s] # "none"
  /\ Spawned /\ Console =>
       /\ child.stdin = "tty3" /\ child.stdout = "tty3" /\ child.stderr = "tty3"
       /\ started = {}
  /\ ~Spawned => started = {}

\* the child of a Console entry runs while a relay of an earlier Graphical
\* run is still there
C6_Witness ==
  /\ Console
  /\ child.state = "running"
  /\ workerpc = "wait"
  /\ relay["stdout"] # "none"

(***************************************************************************)
(* Properties of the registry.  They speak of the state main is in once    *)
(* mk_sgui_layout has returned.                                            *)
(***************************************************************************)
Built == mainpc # "startup"

NStatic == Len(config.items)

RECURSIVE ButtonIds(_)
ButtonIds(bs) == IF bs = <<>> THEN <<>> ELSE <<Head(bs)[2]>> \o ButtonIds(Tail(bs))

RECURSIVE TabIds(_)
TabIds(tabs) ==
  IF tabs = <<>> THEN <<>> ELSE ButtonIds(Head(tabs).buttons) \o TabIds(Tail(tabs))

\* the ROM tabs follow the two static tabs
RomTabs == SubSeq(layout, 3, Len(layout))

NoEmulator(system) == \A k \in 1..Len(config.emulators) :
                        system.name \notin config.emulators[k].systems

\* the systems that get a tab: directory present and listable, some emulator
Listed(system) ==
  /\ system.rom_directory.exists
  /\ system.rom_directory.readable
  /\ ~NoEmulator(system)

ListedSystems == SelectSeq(config.systems, Listed)

Without(q, i) == SubSeq(q, 1, i - 1) \o SubSeq(q, i + 1, Len(q))

ConfigWithout(i) ==
  [items |-> config.items, emulators |-> config.emulators,
   systems |-> Without(config.systems, i)]

SameAsBuiltFrom(cfg) ==
  LET other == mk_sgui_layout(cfg)
  IN  other.entry_map = entries /\ other.layout = layout

\* C7: ids are sequential from 0: the static entries take 0, 1, ... in
\* declaration order, the ROM entries continue after the last static id in
\* system declaration order, no id is given twice and the registry holds
\* exactly one entry per assigned id.
C7_IdsSequential ==
  Built =>
    LET all == TabIds(layout)
        rom == TabIds(RomTabs)
    IN  /\ DOMAIN entries = 0..(Len(all) - 1)
        /\ \A i, j \in 1..Len(all) : i # j => all[i] # all[j]
        /\ \A k \in 1..NStatic :
              (k - 1) \in DOMAIN entries /\ entries[k - 1] = config.items[k]
        /\ \A j \in 1..Len(rom) : rom[j] = NStatic + j - 1
        /\ Len(RomTabs) = Len(ListedSystems)
        /\ \A k \in 1..Len(RomTabs) :
              k <= Len(ListedSystems) /\ RomTabs[k].name = ListedSystems[k].name

\* two static entries of both categories, declared Programs first, and two
\* systems with ROM entries each
C7_Witness ==
  /\ Built
  /\ NStatic = 2
  /\ config.items[1].category = "Programs"
  /\ config.items[2].category = "Tools"
  /\ Len(RomTabs) = 2
  /\ \A k \in 1..Len(RomTabs) : RomTabs[k].buttons # <<>>

\* the extension as the specification defines it: the substring after the
\* last '.', which a name without a '.' does not have
DotPositions(name) == {i \in 1..Len(name) : name[i] = "."}
HasExtension(name) == DotPositions(name) # {}
AfterLastDot(name) ==
  LET last == CHOOSE i \in DotPositions(name) : \A j \in DotPositions(name) : j <= i
  IN  SubSeq(name, last + 1, Len(name))
ExtensionAllowed(system, name) ==
  HasExtension(name) /\ AfterLastDot(name) \in system.file_extensions

RomFile(id) == Last(entries[id].args)
SystemAt(path) == CHOOSE s \in {config.systems[k] : k \in 1..Len(config.systems)} :
                    s.rom_directory.path = path

RECURSIVE CountAllowed(_, _)
CountAllowed(system, files) ==
  IF files = <<>> THEN 0
  ELSE (IF Head(files).ok /\ ExtensionAllowed(system, Head(files).name) THEN 1 ELSE 0)
       + CountAllowed(system, Tail(files))

\* C8: every ROM entry comes from a file whose extension, the substring
\* after the last '.', is one of its system's allowed extensions; the other
\* files yield no entry and take no id.
C8_ExtensionMember ==
  Built =>
    /\ \A id \in DOMAIN entries :
          id >= NStatic =>
            ExtensionAllowed(SystemAt(RomFile(id)[1]), RomFile(id)[2])
    /\ \A k \in 1..Len(RomTabs) :
          k <= Len(ListedSystems) =>
            Len(RomTabs[k].buttons)
              = CountAllowed(ListedSystems[k], ListedSystems[k].rom_directory.files)

\* C9: a system whose rom_directory does not exist leaves the registry and
\* the layout as they are without that system's declaration.
C9_MissingDirectory ==
  Built =>
    \A i \in 1..Len(config.systems) :
      ~config.systems[i].rom_directory.exists => SameAsBuiltFrom(ConfigWithout(i))

\* a missing directory declared before a system that has ROM entries
C9_Witness ==
  /\ Built
  /\ Len(config.systems) = 2
  /\ ~config.systems[1].rom_directory.exists
  /\ Len(RomTabs) = 1
  /\ Len(RomTabs[1].buttons) = 2
  /\ NStatic = 1

FirstMatching(system) ==
  CHOOSE k \in 1..Len(config.emulators) :
    /\ system.name \in config.emulators[k].systems
    /\ \A j \in 1..(k - 1) : system.name \notin config.emulators[j].systems

UsesEmulator(entry, emulator) ==
  /\ entry.executable = emulator.executable
  /\ SubSeq(entry.args, 1, Len(entry.args) - 1) = emulator.args
  /\ entry.env = emulator.env

\* C10: a system that no emulator lists leaves the registry and the layout
\* as they are without that system's declaration, whatever its directory
\* holds; the entries of any other system use the first emulator, in
\* declaration order, that lists it.
C10_EmulatorMatch ==
  Built =>
    /\ \A i \in 1..Len(config.systems) :
          NoEmulator(config.systems[i]) => SameAsBuiltFrom(ConfigWithout(i))
    /\ \A k \in 1..Len(RomTabs) :
          k <= Len(ListedSystems) =>
            \A b \in 1..Len(RomTabs[k].buttons) :
              LET id == RomTabs[k].buttons[b][2]
              IN  /\ id \in DOMAIN entries
                  /\ UsesEmulator(entries[id],
                                  config.emulators[FirstMatching(ListedSystems[k])])

\* a system without emulator whose directory holds an allowed file, declared
\* before a system that two emulators list
C10_Witness ==
  /\ Built
  /\ Len(config.systems) = 2
  /\ NoEmulator(config.systems[1])
  /\ CountAllowed(config.systems[1], config.systems[1].rom_directory.files) > 0
  /\ Cardinality(matching(config.emulators, config.systems[2].name)) = 2
  /\ Len(RomTabs) = 1
  /\ RomTabs[1].buttons # <<>>

\* ---- run_entry: what follows the wait --------------------------------------

\* the switch back to console 1 has been attempted in this run
SwitchOutAttempted == Len(arbitration) = 2

\* C11: in a run that spawned the child, the switch back to console 1 is
\* attempted after the wait whether the wait succeeded or failed: the run
\* does not return, with the wait's error or with anything else, before that
\* attempt.
C11_SwitchOutAfterWait ==
  Spawned /\ workerpc \in {"failed", "finished"} => SwitchOutAttempted

\* ---- push2dogd: the end of the stream --------------------------------------

\* the relay of s has had read_line report the end of the stream, the child
\* having closed the pipe, and is still in its loop
LoopingPastEof(s) == relay[s] = "eof" /\ ~pipe[s].open /\ pipe[s].lines = 0

\* C12: a relay worker ends with its stream: once a read has reported the end
\* of the stream the loop is over and the worker has returned, so no relay is
\* still looping after that read.
C12_RelayEndsAtEof ==
  \A s \in Streams : ~LoopingPastEof(s)

\* ---- main: the log of a failed run -----------------------------------------

\* the lines the launcher loop has posted for this run's failure
FailureLines == SelectSeq(log, LAMBDA l : l.msg = "Failed to run menu entry")

\* C13: an error returned by a run, of whichever step, is logged by the
\* launcher loop exactly once and at critical priority: a finished run that
\* returned an error has one failure line, a critical one carrying that
\* error, and a run that returned no error has none.
C13_FailureLoggedCritical ==
  IF workerpc = "finished" /\ result \in RunErrors
  THEN FailureLines = <<Line("critical", "Failed to run menu entry", <<result>>)>>
  ELSE FailureLines = <<>>

\* ---- main: one run at a time -----------------------------------------------

\* a worker is started only by the dispatching match, with no worker and no
\* child about
RunStartsFromIdle ==
  workerpc' = "switch_in" /\ workerpc # "switch_in"
    => mainpc = "match" /\ workerpc = "idle" /\ child.state = "none"

\* an event pulled inside the discard loop, a button press included, is
\* dropped: it touches neither the worker nor the entry being run
PullDiscarded ==
  mainpc = "discard_wait" /\ mainpc' # mainpc
    => mainpc' = "discard_check" /\ UNCHANGED <<workerpc, cur, child, result>>

\* the discard loop is left only once the worker has finished, so with no
\* child still running
DiscardEndsWithWorker ==
  mainpc \in {"discard_check", "discard_wait"} /\ mainpc' = "get_ev"
    => workerpc = "finished" /\ child.state \in {"none", "reaped"}

\* a child starts only where none is about
OneChild ==
  child'.state = "running" /\ child.state # "running"
    => child.state = "none" /\ workerpc = "spawn"

\* at the dispatching positions there is neither a worker nor a child
DispatchingAlone ==
  mainpc' \in {"get_ev", "match"} => workerpc' = "idle" /\ child'.state = "none"

\* C14: at most one run and one child exist at any time: a run starts only
\* from the dispatching match with no worker and no child about, an event
\* pulled while the worker runs is discarded without touching the run, and
\* the loop returns to dispatching only after the worker has completed.
C14_OneRunAtATime ==
  [][RunStartsFromIdle /\ PullDiscarded /\ DiscardEndsWithWorker /\ OneChild
     /\ DispatchingAlone]_vars

\* in a second run the main thread is pulling events to discard while the
\* worker waits for its running child
C14_Witness ==
  /\ mainpc = "discard_wait"
  /\ workerpc = "wait"
  /\ child.state = "running"
  /\ prevResult # "none"

\* ---- main: the "ignore input" toggle ---------------------------------------

\* the toggle is set exactly while a worker exists: from its start, through
\* every position of the run and of its child, to the end of the discard loop
IgnoredWhileRunning ==
  /\ ignore_hid' <=> workerpc' # "idle"
  /\ child'.state \in {"running", "exited"} => ignore_hid'
  /\ mainpc' \in {"get_ev", "match", "exited"} => ~ignore_hid'

\* the toggle is cleared by the end of the discard loop and by nothing else,
\* whatever the run returned
ClearedAfterWorker ==
  ignore_hid /\ ~ignore_hid'
    => mainpc = "discard_check" /\ workerpc = "finished" /\ mainpc' = "get_ev"

\* the press of an id that is not registered sends the loop back to get_ev
\* and changes nothing else
UnregisteredPressIsNoOp ==
  mainpc = "match" /\ ev.kind = "StatelessButtonPress" /\ ev.id \notin DOMAIN entries
  /\ mainpc' # mainpc
    => mainpc' = "get_ev" /\ UNCHANGED <<registry, ignore_hid, privileged, procEnv, tty, devOps,
                    arbitration, workerpc, cur, envs, stdio, child, result,
                    prevResult, started, relay, pipe, log>>

\* C15: "ignore input" brackets every launch: it is set from the start of
\* the worker, stays set in every state in which the worker or the child
\* runs, and is cleared after the worker has completed, whatever the run
\* returned; the press of an unregistered id changes neither the toggle nor
\* any other state.
C15_IgnoreInputBrackets ==
  [][IgnoredWhileRunning /\ ClearedAfterWorker /\ UnregisteredPressIsNoOp]_vars

\* a run has failed at its wait and the toggle is still set, the main thread
\* not yet out of the discard loop
C15_Witness ==
  /\ workerpc = "finished"
  /\ result = WaitError
  /\ ignore_hid
  /\ mainpc = "discard_wait"

\* ---- run_entry: the order of the steps -------------------------------------

\* the first switch_tty call of the run returned Ok
SwitchedIn == arbitration # <<>> /\ arbitration[1] = "Ok"

\* C16: the steps of a run happen in order: the child is spawned only after
\* the arbitrate-in switch has succeeded, a relay is started only after the
\* spawn, the wait and what follows it come only after the spawn, and the
\* switch back only after the wait; before the spawn there is neither a
\* child nor a relay of this run.
C16_StepOrder ==
  /\ workerpc \in {"wire", "spawn"} => SwitchedIn /\ ~Spawned /\ started = {}
  /\ Spawned => SwitchedIn
  /\ started # {} => Spawned
  /\ workerpc \in {"capture_stdout", "capture_stderr", "wait", "switch_out"} => Spawned
  /\ child.state = "reaped" => workerpc \in {"switch_out", "failed", "finished"}
  /\ SwitchOutAttempted => child.state = "reaped"

\* with privilege a Graphical run has switched in, spawned, started both
\* relays and is waiting for its running child
C16_Witness ==
  /\ privileged
  /\ workerpc = "wait"
  /\ arbitration = <<"Ok">>
  /\ started = Streams
  /\ child.state = "running"

\* ---- run_entry: the environment of a Console child -------------------------

\* C17: the child of a Console entry is spawned with TERM=linux, overlaid
\* on the environment the entry declares.
C17_ConsoleTerm ==
  Spawned /\ Console => child.env["TERM"] = "linux"

\* ---- run_entry: what a run returns -----------------------------------------

\* C18: when the switch back to console 1 fails the run returns that
\* failure although the child was spawned and has exited, and a run returns
\* Ok only when arbitrate-in, spawn, wait and arbitrate-out have all
\* succeeded.
C18_SwitchOutFailureReturned ==
  /\ SwitchOutAttempted /\ arbitration[2] = "Err" =>
       /\ result = SwitchOutError
       /\ child.state = "reaped"
       /\ workerpc \in {"failed", "finished"}
  /\ result = "Ok" =>
       /\ arbitration = <<"Ok", "Ok">>
       /\ child.state = "reaped"
       /\ workerpc = "finished"

\* the child of a Graphical run has exited with code 0, the switch back has
\* failed and the run has returned that failure
C18_Witness ==
  /\ arbitration = <<"Ok", "Err">>
  /\ child.state = "reaped"
  /\ child.status = [kind |-> "code", n |-> 0]
  /\ result = SwitchOutError
  /\ workerpc = "finished"

\* ---- run_entry: the capture step and the kind of the entry -----------------

\* the lines of this run that report a handle that could not be obtained
HandleLines == SelectSeq(log, LAMBDA l : l.msg = "Failed to get handle")

\* C19: the capture step is for Graphical entries only: a Console run posts
\* no "failed to get a handle" line, such a line is posted only in a
\* Graphical run for a pipe whose handle could not be obtained, and it does
\* not abort the run.
C19_CaptureGraphicalOnly ==
  /\ Console => HandleLines = <<>>
  /\ HandleLines # <<>> =>
       /\ Graphical
       /\ \A i \in 1..Len(HandleLines) :
            HandleLines[i].prio = "error" /\ child[HandleLines[i].arg[1]] = "piped"
       /\ result \notin RunErrors \ {WaitError, SwitchOutError}

\* ---- main: the console at the dispatching position -------------------------

\* the loop is dispatching: no worker, "ignore input" cleared
Dispatching == mainpc \in {"get_ev", "match"} /\ workerpc = "idle" /\ ~ignore_hid

\* C20: with privilege held, whenever the loop is back to dispatching the
\* active console is console 1, whatever the previous run returned.
C20_ConsoleOneAtDispatch ==
  privileged /\ Dispatching => tty = 1

====
